---- MODULE Spec2Model ----
(***************************************************************************)
(* random-picker: weighted random picking (Picker) and the exact          *)
(* calculation of the probability that an item exists in a picking result *)
(* (Config::calc_probabilities with its CalcStack tree walker).           *)
(*                                                                         *)
(* f64 values are modelled as exact non-negative rationals <<n, d>> in    *)
(* lowest terms (d > 0); raw weights of a Config are integers.  Vec       *)
(* indexes are 1-based here (0-based in the source), None is 0.           *)
(***************************************************************************)
EXTENDS Integers, Sequences, FiniteSets, TLC

\* ------------------------------------------------------------------ bounds
Keys == {"a", "b", "c", "d"}

MaxWeight == 2

MaxAmount == 5

\* picker runs: keys of the table, pick() calls per picker, items asked for,
\* words the random source emits, and the largest word (u32::MAX in the source)
PickKeys == {"a", "b", "c"}

MaxCalls == 2

MaxPick == 3

MaxDraws == 3

RandMax == 2

\* worker threads: the available parallelism and the length of the normalized table
MaxParallelism == 3

MaxTableLen == 4

\* append_str: the entries of an input string
MaxEntries == 2

Names == {"a", "#", "delete", "inversed", "repetitive", "power_inversed", "repetitive_picking"}

Values == {"a", "true", "false", "1", "2"}

Weights == (0 - 1) .. MaxWeight

\* ------------------------------------------------- exact f64 arithmetic
RECURSIVE GCD(_, _)
GCD(a, b) == IF b = 0 THEN a ELSE GCD(b, a % b)

Rat(n, d) == LET g == GCD(n, d) IN <<n \div g, d \div g>>

RZero == <<0, 1>>

ROne == <<1, 1>>

\* sums over the least common denominator
RAdd(x, y) ==
    LET g == GCD(x[2], y[2])
    IN Rat(x[1] * (y[2] \div g) + y[1] * (x[2] \div g), (x[2] \div g) * y[2])

RSub(x, y) ==
    LET g == GCD(x[2], y[2])
    IN Rat(x[1] * (y[2] \div g) - y[1] * (x[2] \div g), (x[2] \div g) * y[2])

RMul(x, y) == Rat(x[1] * y[1], x[2] * y[2])

RDiv(x, y) == Rat(x[1] * y[2], x[2] * y[1])

RLeq(x, y) == x[1] * y[2] <= y[1] * x[2]

RECURSIVE RPowi(_, _)
RPowi(x, n) == IF n = 0 THEN ROne ELSE RMul(x, RPowi(x, n - 1))

RECURSIVE RSum(_)
RSum(s) == IF s = <<>> THEN RZero ELSE RAdd(RSum(SubSeq(s, 1, Len(s) - 1)), s[Len(s)])

\* ------------------------------------------------------------ config.rs
\* The orders in which a HashMap holding the key set D may enumerate its entries.
IterOrders(D) ==
    {o \in [1 .. Cardinality(D) -> D] : \A i, j \in DOMAIN o : i # j => o[i] # o[j]}

\* check refusing a zero weight whatever inversed is
CheckZeroRefused(c) ==
    IF \E x \in DOMAIN c.table : c.table[x] <= 0
    THEN "InvalidTable"
    ELSE IF \E x \in DOMAIN c.table : c.table[x] > 0 THEN "Ok" ELSE "InvalidTable"

Check(c) ==
    IF \E x \in DOMAIN c.table : c.table[x] < 0 \/ (c.inversed /\ c.table[x] = 0)
    THEN "InvalidTable"
    ELSE IF \E x \in DOMAIN c.table : c.table[x] > 0 THEN "Ok" ELSE "InvalidTable"

IsFair(c, ord) ==
    /\ Check(c) = "Ok"
    /\ \A i \in 2 .. Len(ord) : c.table[ord[i]] = c.table[ord[i - 1]]

\* vec_table without the filter of the non-inversed branch
VecTableUnfiltered(c, ord) ==
    [i \in 1 .. Len(ord) |->
        [k |-> ord[i],
         v |-> IF c.inversed THEN <<1, c.table[ord[i]]>> ELSE <<c.table[ord[i]], 1>>]]

\* the entries kept by vec_table, in the order the map enumerates them
VecTable(c, ord) ==
    IF ~c.inversed
    THEN LET keep == SelectSeq(ord, LAMBDA x : c.table[x] > 0)
         IN [i \in 1 .. Len(keep) |-> [k |-> keep[i], v |-> <<c.table[keep[i]], 1>>]]
    ELSE [i \in 1 .. Len(ord) |-> [k |-> ord[i], v |-> <<1, c.table[ord[i]]>>]]

\* ----------------------------------------------- config.rs: append_str
\* A string is a sequence of symbols: the separator characters and words that
\* hold none of them; a key of Config<String> is the sequence of its symbols.
LineSeps == {"\r", "\n", ";"}

WordSeps == {" ", "\t", "="}

Digits == {"0", "1", "2"}

DigitVal(ch) == IF ch = "0" THEN 0 ELSE IF ch = "1" THEN 1 ELSE 2

\* str::split: the pieces between the separators, the empty ones included
RECURSIVE Split(_, _)
Split(s, seps) ==
    LET at == {i \in 1 .. Len(s) : s[i] \in seps} IN
    IF at = {} THEN <<s>>
    ELSE LET i == CHOOSE j \in at : \A k \in at : j <= k
         IN <<SubSeq(s, 1, i - 1)>> \o Split(SubSeq(s, i + 1, Len(s)), seps)

\* line.split(&[' ', '\t', '=']).filter(|s| !s.is_empty())
SplitLine(line) == SelectSeq(Split(line, WordSeps), LAMBDA w : w # <<>>)

\* bool::from_str accepting the digit 1 for true
BoolFromStrDigit(s) ==
    IF s = <<"true">> \/ s = <<"1">> THEN [ok |-> TRUE, b |-> TRUE]
    ELSE IF s = <<"false">> THEN [ok |-> TRUE, b |-> FALSE]
    ELSE [ok |-> FALSE, b |-> FALSE]

BoolFromStr(s) ==
    IF s = <<"true">> THEN [ok |-> TRUE, b |-> TRUE]
    ELSE IF s = <<"false">> THEN [ok |-> TRUE, b |-> FALSE]
    ELSE [ok |-> FALSE, b |-> FALSE]

RECURSIVE Decimal(_)
Decimal(s) ==
    IF s = <<>> THEN 0 ELSE 10 * Decimal(SubSeq(s, 1, Len(s) - 1)) + DigitVal(s[Len(s)])

\* f64::from_str on the strings of the model: the strings of digits parse
F64FromStr(s) ==
    IF s # <<>> /\ \A i \in 1 .. Len(s) : s[i] \in Digits
    THEN [ok |-> TRUE, v |-> Decimal(s)]
    ELSE [ok |-> FALSE, v |-> 0]

TableInsert(table, k, v) == [x \in DOMAIN table \cup {k} |-> IF x = k THEN v ELSE table[x]]

TableRemove(table, k) == [x \in DOMAIN table \ {k} |-> table[x]]

\* the body of the loop of append_str for one line
AppendLine(c, line) ==
    LET spl == SplitLine(line) IN
    IF spl = <<>> THEN c
    ELSE IF spl[1][1] = "#" THEN c
    ELSE LET item_name == spl[1] IN
         IF item_name = <<"power_inversed">> THEN [c EXCEPT !.inversed = TRUE]
         ELSE IF item_name = <<"repetitive_picking">> THEN [c EXCEPT !.repetitive = TRUE]
         ELSE IF Len(spl) < 2 THEN c
         ELSE LET s == spl[Len(spl)] IN
              IF item_name = <<"delete">> THEN [c EXCEPT !.table = TableRemove(@, s)]
              ELSE IF item_name = <<"inversed">>
                   THEN IF BoolFromStr(s).ok THEN [c EXCEPT !.inversed = BoolFromStr(s).b]
                        ELSE c
              ELSE IF item_name = <<"repetitive">>
                   THEN IF BoolFromStr(s).ok THEN [c EXCEPT !.repetitive = BoolFromStr(s).b]
                        ELSE c
              ELSE IF F64FromStr(s).ok
                   THEN [c EXCEPT !.table = TableInsert(@, item_name, F64FromStr(s).v)]
                   ELSE c

RECURSIVE AppendLines(_, _)
AppendLines(c, lines) ==
    IF lines = <<>> THEN c
    ELSE AppendLine(AppendLines(c, SubSeq(lines, 1, Len(lines) - 1)), lines[Len(lines)])

AppendStr(c, str_items) == AppendLines(c, Split(str_items, LineSeps))

\* -------------------------------------------------------------- calc.rs
CalcStackNewStackSize(pick_amount, table_picked) ==
    LET n == Cardinality({i \in DOMAIN table_picked : table_picked[i]})
    IN IF n > pick_amount THEN 0 ELSE pick_amount - n

\* rem_width of CalcStack::new: the loop stops adding at the picked entry met with stack_size = 0
CalcStackNewRemWidth(table, pick_amount, table_picked) ==
    LET stop == {i \in DOMAIN table_picked :
                    /\ table_picked[i]
                    /\ Cardinality({j \in 1 .. i - 1 : table_picked[j]}) >= pick_amount}
        last == IF stop = {} THEN Len(table)
                ELSE (CHOOSE i \in stop : \A j \in stop : i <= j) - 1
        idx  == SelectSeq([i \in 1 .. last |-> i], LAMBDA i : ~table_picked[i])
    IN RSum([i \in 1 .. Len(idx) |-> table[idx[i]]])

CalcStackNew(table, pick_amount, table_picked) ==
    [table        |-> table,
     stack_size   |-> CalcStackNewStackSize(pick_amount, table_picked),
     stack        |-> <<>>,
     table_picked |-> table_picked,
     rem_width    |-> CalcStackNewRemWidth(table, pick_amount, table_picked),
     result       |-> [i \in 1 .. Len(table) |-> RZero]]

\* the last unpicked index in place of the first
NextUnpickedLast(cs, least_index) ==
    LET free == {i \in least_index .. Len(cs.table_picked) : ~cs.table_picked[i]}
    IN IF free = {} THEN 0 ELSE CHOOSE i \in free : \A j \in free : j <= i

NextUnpicked(cs, least_index) ==
    LET free == {i \in least_index .. Len(cs.table_picked) : ~cs.table_picked[i]}
    IN IF free = {} THEN 0 ELSE CHOOSE i \in free : \A j \in free : i <= j

\* go_down with the parent's probability left out of the product
GoDownProbNoParent(cs, i_next) == RDiv(cs.table[i_next], cs.rem_width)

\* probability of the node go_down pushes
GoDownProb(cs, i_next) ==
    LET parent_prob == IF cs.stack = <<>> THEN ROne ELSE cs.stack[Len(cs.stack)][2]
    IN RDiv(RMul(parent_prob, cs.table[i_next]), cs.rem_width)

\* go_down leaving rem_width as it is
GoDownKeepsWidth(cs) ==
    IF Len(cs.stack) >= cs.stack_size THEN [ok |-> FALSE, cs |-> cs]
    ELSE LET i_next == NextUnpicked(cs, 1) IN
         IF i_next = 0 THEN [ok |-> FALSE, cs |-> cs]
         ELSE LET prob == GoDownProb(cs, i_next)
              IN [ok |-> TRUE,
                  cs |-> [cs EXCEPT !.stack = Append(@, <<i_next, prob>>),
                                    !.table_picked[i_next] = TRUE,
                                    !.result[i_next] = RAdd(@, prob)]]

GoDown(cs) ==
    IF Len(cs.stack) >= cs.stack_size THEN [ok |-> FALSE, cs |-> cs]
    ELSE LET i_next == NextUnpicked(cs, 1) IN
         IF i_next = 0 THEN [ok |-> FALSE, cs |-> cs]
         ELSE LET prob == GoDownProb(cs, i_next)
              IN [ok |-> TRUE,
                  cs |-> [cs EXCEPT !.stack = Append(@, <<i_next, prob>>),
                                    !.table_picked[i_next] = TRUE,
                                    !.rem_width = RSub(@, cs.table[i_next]),
                                    !.result[i_next] = RAdd(@, prob)]]

\* go_right taking the probability of the sibling it replaces for the parent's
GoRightParentProbOfSibling(cs) == cs.stack[Len(cs.stack)][2]

\* the path probability of the parent of the stack top
GoRightParentProb(cs) ==
    LET stack_level == Len(cs.stack)
    IN IF stack_level >= 2 THEN cs.stack[stack_level - 1][2] ELSE ROne

\* go_right dividing by rem_width in place of the parent's
GoRightStaleWidth(cs) ==
    IF cs.stack = <<>> THEN [ok |-> FALSE, cs |-> cs]
    ELSE LET i_prev == cs.stack[Len(cs.stack)][1]
             i_next == NextUnpicked(cs, i_prev + 1)
         IN IF i_next = 0 THEN [ok |-> FALSE, cs |-> cs]
            ELSE LET stack_level == Len(cs.stack)
                     parent_prob == GoRightParentProb(cs)
                     parent_rem_width == RAdd(cs.rem_width, cs.table[i_prev])
                     prob == RDiv(RMul(parent_prob, cs.table[i_next]), cs.rem_width)
                 IN [ok |-> TRUE,
                     cs |-> [cs EXCEPT !.stack[stack_level] = <<i_next, prob>>,
                                       !.table_picked[i_prev] = FALSE,
                                       !.table_picked[i_next] = TRUE,
                                       !.rem_width = RSub(parent_rem_width, cs.table[i_next]),
                                       !.result[i_next] = RAdd(@, prob)]]

GoRight(cs) ==
    IF cs.stack = <<>> THEN [ok |-> FALSE, cs |-> cs]
    ELSE LET i_prev == cs.stack[Len(cs.stack)][1]
             i_next == NextUnpicked(cs, i_prev + 1)
         IN IF i_next = 0 THEN [ok |-> FALSE, cs |-> cs]
            ELSE LET stack_level == Len(cs.stack)
                     parent_prob == GoRightParentProb(cs)
                     parent_rem_width == RAdd(cs.rem_width, cs.table[i_prev])
                     prob == RDiv(RMul(parent_prob, cs.table[i_next]), parent_rem_width)
                 IN [ok |-> TRUE,
                     cs |-> [cs EXCEPT !.stack[stack_level] = <<i_next, prob>>,
                                       !.table_picked[i_prev] = FALSE,
                                       !.table_picked[i_next] = TRUE,
                                       !.rem_width = RSub(parent_rem_width, cs.table[i_next]),
                                       !.result[i_next] = RAdd(@, prob)]]

\* go_up_right leaving the popped index marked as picked
RECURSIVE GoUpRightKeepsPicked(_)
GoUpRightKeepsPicked(cs) ==
    IF cs.stack = <<>> THEN [ok |-> FALSE, cs |-> cs]
    ELSE LET i_prev == cs.stack[Len(cs.stack)][1]
             popped == [cs EXCEPT !.stack = SubSeq(@, 1, Len(@) - 1),
                                  !.rem_width = RAdd(@, cs.table[i_prev])]
             r == GoRight(popped)
         IN IF r.ok THEN r ELSE GoUpRightKeepsPicked(popped)

RECURSIVE GoUpRight(_)
GoUpRight(cs) ==
    IF cs.stack = <<>> THEN [ok |-> FALSE, cs |-> cs]
    ELSE LET i_prev == cs.stack[Len(cs.stack)][1]
             popped == [cs EXCEPT !.stack = SubSeq(@, 1, Len(@) - 1),
                                  !.table_picked[i_prev] = FALSE,
                                  !.rem_width = RAdd(@, cs.table[i_prev])]
             r == GoRight(popped)
         IN IF r.ok THEN r ELSE GoUpRight(popped)

RECURSIVE Calc(_)
Calc(cs) ==
    LET d == GoDown(cs) IN
    IF d.ok THEN Calc(d.cs)
    ELSE LET r == GoRight(cs) IN
         IF r.ok THEN Calc(r.cs)
         ELSE LET u == GoUpRight(cs) IN
              IF u.ok THEN Calc(u.cs) ELSE u.cs.result

\* table_picked[i_th] left true for the walkers built after i_th
WalkerResultPrefixKept(table_val, pick_amount, i_th) ==
    Calc(CalcStackNew(table_val, pick_amount,
                      [i \in 1 .. Len(table_val) |-> i <= i_th]))

\* the result of the walker whose fixed first-level index is i_th
WalkerResult(table_val, pick_amount, i_th) ==
    Calc(CalcStackNew(table_val, pick_amount,
                      [i \in 1 .. Len(table_val) |-> i = i_th]))

\* joins the walkers 1 .. i_th in spawn order and adds their weighted results
RECURSIVE Reduce(_, _, _)
Reduce(table_val, pick_amount, i_th) ==
    IF i_th = 0 THEN table_val
    ELSE LET acc == Reduce(table_val, pick_amount, i_th - 1)
             sub_result == WalkerResult(table_val, pick_amount, i_th)
         IN [i \in 1 .. Len(table_val) |->
                RAdd(acc[i], RMul(table_val[i_th], sub_result[i]))]

\* the general non-repetitive case, on the normalized table
GeneralCase(table, pick_amount) ==
    LET table_val == [i \in 1 .. Len(table) |-> table[i].v]
        calc_result == Reduce(table_val, pick_amount, Len(table))
    IN [x \in {table[i].k : i \in 1 .. Len(table)} |->
           calc_result[CHOOSE i \in 1 .. Len(table) : table[i].k = x]]

\* available_parallelism().max(table.len())
CntThreads(parallelism, len) == IF parallelism >= len THEN parallelism ELSE len

\* table.len().div_ceil(cnt_threads)
CntCalcGroups(len, cnt_threads) == (len + cnt_threads - 1) \div cnt_threads

\* calc_groups: group i holds the walkers i_th of its cnt_threads slots that exist
CalcGroups(len, cnt_threads) ==
    [i \in 1 .. CntCalcGroups(len, cnt_threads) |->
        LET first == (i - 1) * cnt_threads + 1
            last == IF i * cnt_threads < len THEN i * cnt_threads ELSE len
        IN [j \in 1 .. last - first + 1 |-> first + j - 1]]

\* the orchestrator in front of the loop over the groups
CalcStart(parallelism, len) ==
    [pc |-> "spawn", parallelism |-> parallelism, len |-> len,
     calc_groups |-> CalcGroups(len, CntThreads(parallelism, len)),
     group |-> 1, thread_hdls |-> <<>>, joining |-> <<>>,
     running |-> {}, returned |-> {}, reduced |-> <<>>]

\* thread::spawn of the next walker of the group
SpawnNext(c) ==
    LET g == c.calc_groups[c.group]
        i_th == g[Len(c.thread_hdls) + 1]
        spawned == [c EXCEPT !.thread_hdls = Append(@, i_th), !.running = @ \cup {i_th}]
    IN IF Len(spawned.thread_hdls) < Len(g) THEN spawned
       ELSE [spawned EXCEPT !.pc = "join", !.thread_hdls = <<>>, !.joining = spawned.thread_hdls]

\* hdl.join() of the oldest handle returns and its sub_result is added to calc_result
JoinNext(c) ==
    LET i_th == Head(c.joining)
        joined == [c EXCEPT !.joining = Tail(@), !.reduced = Append(@, i_th)]
    IN IF joined.joining # <<>> THEN joined
       ELSE IF c.group < Len(c.calc_groups)
            THEN [joined EXCEPT !.pc = "spawn", !.group = @ + 1]
            ELSE [joined EXCEPT !.pc = "done"]

\* one round of the loop of calc(): the stack after it and whether calc() goes on
CalcRound(cs) ==
    LET d == GoDown(cs) IN
    IF d.ok THEN d
    ELSE LET r == GoRight(cs) IN
         IF r.ok THEN r ELSE GoUpRight(cs)

\* the walkers built in front of the spawn loop, each from clones of table_val
\* and of table_picked with its own first-level index set
WorkerCalcs(table_val, pick_amount) ==
    [i_th \in 1 .. Len(table_val) |->
        CalcStackNew(table_val, pick_amount, [i \in 1 .. Len(table_val) |-> i = i_th])]

\* the orchestrator in front of the loop over the groups, with the data it holds
WorkersStart(parallelism, table_val, pick_amount) ==
    CalcStart(parallelism, Len(table_val)) @@
    [table_val |-> table_val, pick_amount |-> pick_amount,
     calcs |-> WorkerCalcs(table_val, pick_amount),
     calc_result |-> table_val, panicked |-> {}, status |-> "none"]

\* the round of walker i_th reads and writes the result vector of walker 1
WorkerRoundSharedResult(c, i_th) ==
    LET r == CalcRound([c.calcs[i_th] EXCEPT !.result = c.calcs[1].result])
        stepped == [c EXCEPT !.calcs[i_th] = r.cs, !.calcs[1].result = r.cs.result]
    IN IF r.ok THEN stepped
       ELSE [stepped EXCEPT !.running = @ \ {i_th}, !.returned = @ \cup {i_th}]

\* the thread of walker i_th runs one round of calc() on the CalcStack moved into
\* it; when calc() returns the thread ends with (i_th, result)
WorkerRound(c, i_th) ==
    LET r == CalcRound(c.calcs[i_th])
        stepped == [c EXCEPT !.calcs[i_th] = r.cs]
    IN IF r.ok THEN stepped
       ELSE [stepped EXCEPT !.running = @ \ {i_th}, !.returned = @ \cup {i_th}]

\* sub_result of walker i_th added to calc_result
AddSubResult(c, i_th) ==
    [i \in 1 .. Len(c.calc_result) |->
        RAdd(c.calc_result[i], RMul(c.table_val[i_th], c.calcs[i_th].result[i]))]

\* a failed join skipped and the loop over the handles continued
JoinWorkerSkipsLost(c) ==
    LET i_th == Head(c.joining)
        joined == JoinNext(c)
        done == [joined EXCEPT !.status = IF joined.pc = "done" THEN "Ok" ELSE @]
    IN IF i_th \in c.panicked THEN done
       ELSE [done EXCEPT !.calc_result = AddSubResult(c, i_th)]

\* hdl.join() of the oldest handle: Err of a panicked thread returns
\* Err(ThreadError) at once; otherwise the sub_result is added to calc_result,
\* and after the last handle of the last group Ok(calc_result) is returned
JoinWorker(c) ==
    LET i_th == Head(c.joining)
        joined == JoinNext(c)
    IN IF i_th \in c.panicked
       THEN [c EXCEPT !.pc = "failed", !.status = "ThreadError"]
       ELSE [joined EXCEPT !.calc_result = AddSubResult(c, i_th),
                           !.status = IF joined.pc = "done" THEN "Ok" ELSE @]

\* vec_table mapped to values within range 0 ~ 1
Normalized(c, ord) ==
    LET raw_table == VecTable(c, ord)
        grid_width == RSum([i \in 1 .. Len(raw_table) |-> raw_table[i].v])
    IN [i \in 1 .. Len(raw_table) |->
           [k |-> raw_table[i].k, v |-> RDiv(raw_table[i].v, grid_width)]]

Collect(table) ==
    [x \in {table[i].k : i \in 1 .. Len(table)} |->
        table[CHOOSE i \in 1 .. Len(table) : table[i].k = x].v]

Ok(m) == [status |-> "Ok", map |-> m]

Err(e) == [status |-> e, map |-> <<>>]

\* every key of the config's table mapped to the same probability
AllKeys(c, prob) == [x \in DOMAIN c.table |-> prob]

\* the result of pick_amount = 0 returned for the full pick
FullPickZero(c) == AllKeys(c, RZero)

FullPick(c) == AllKeys(c, ROne)

FairProb(pick_amount, len) == Rat(pick_amount, len)

\* the probability of k hits in place of that of at least one hit
RepetitiveProbAllHits(v, pick_amount) == RPowi(v, pick_amount)

RepetitiveProb(v, pick_amount) == RSub(ROne, RPowi(RSub(ROne, v), pick_amount))

CalcProbabilities(c, ord, pick_amount) ==
    LET len == Cardinality(DOMAIN c.table) IN
    IF pick_amount = 0 THEN Ok(AllKeys(c, RZero))
    ELSE IF ~c.repetitive /\ pick_amount > len THEN Err("InvalidAmount")
    ELSE IF ~c.repetitive /\ pick_amount = len THEN Ok(FullPick(c))
    ELSE IF ~c.repetitive /\ IsFair(c, ord)
         THEN Ok(AllKeys(c, FairProb(pick_amount, len)))
    ELSE IF Check(c) # "Ok" THEN Err("InvalidTable")
    ELSE LET table == Normalized(c, ord) IN
         IF pick_amount = 1 THEN Ok(Collect(table))
         ELSE IF c.repetitive
              THEN Ok(Collect([i \in 1 .. Len(table) |->
                        [k |-> table[i].k, v |-> RepetitiveProb(table[i].v, pick_amount)]]))
              ELSE Ok(GeneralCase(table, pick_amount))

\* ------------------------------------------------------------ picker.rs
\* running sums of the weights of table
RECURSIVE Grid(_)
Grid(table) ==
    IF table = <<>> THEN <<>>
    ELSE LET head == Grid(SubSeq(table, 1, Len(table) - 1))
             cur == IF head = <<>> THEN RZero ELSE head[Len(head)]
         IN Append(head, RAdd(cur, table[Len(table)].v))

\* what pick(amount) returned: Ok(items) or Err(status)
Returned(amount, status, items) == [amount |-> amount, status |-> status, items |-> items]

NoReturn == Returned(0, "none", <<>>)

NoPicker ==
    [state |-> "none", table |-> <<>>, grid |-> <<>>, grid_width |-> RZero,
     repetitive |-> FALSE, table_picked |-> <<>>, picked_indexes |-> <<>>,
     pc |-> "idle", amount |-> 0, ncalls |-> 0, rng_pos |-> 0, last |-> NoReturn]

\* configure leaving table_picked at the length it had
ConfigureNoResize(picker, c, ord) ==
    LET table == VecTable(c, ord)
        grid == Grid(table)
    IN [picker EXCEPT !.state = "built",
                      !.table = table,
                      !.grid = grid,
                      !.grid_width = grid[Len(grid)],
                      !.repetitive = c.repetitive]

\* configure: the picker after a successful Picker::configure(c)
Configure(picker, c, ord) ==
    LET table == VecTable(c, ord)
        grid == Grid(table)
        old == picker.table_picked
    IN [picker EXCEPT !.state = "built",
                      !.table = table,
                      !.grid = grid,
                      !.grid_width = grid[Len(grid)],
                      !.repetitive = c.repetitive,
                      !.table_picked = [i \in 1 .. Len(table) |->
                                           IF i <= Len(old) THEN old[i] ELSE FALSE]]

\* Picker::configure(c) on a picker: vec_table()? returns the error of check()
\* before anything is assigned
PickerConfigure(picker, c, ord) ==
    IF Check(c) # "Ok" THEN picker ELSE Configure(picker, c, ord)

BuildWithRng(c, ord) ==
    IF Check(c) # "Ok" THEN [NoPicker EXCEPT !.state = "InvalidTable"]
    ELSE Configure([NoPicker EXCEPT !.repetitive = c.repetitive], c, ord)

\* the random word scaled to 0 ~ grid_width
ScaledVal(picker, word) == RMul(Rat(word, RandMax), picker.grid_width)

\* pick_index comparing with < in place of <=
PickIndexBelow(picker, word) ==
    LET val == ScaledVal(picker, word)
        hit == {i \in 1 .. Len(picker.grid) : ~RLeq(picker.grid[i], val)}
    IN IF hit # {} THEN CHOOSE i \in hit : \A j \in hit : i <= j
       ELSE Len(picker.table)

PickIndex(picker, word) ==
    LET val == ScaledVal(picker, word)
        hit == {i \in 1 .. Len(picker.grid) : RLeq(val, picker.grid[i])}
    IN IF hit # {} THEN CHOOSE i \in hit : \A j \in hit : i <= j
       ELSE Len(picker.table)

ItemKey(picker, i) == picker.table[i].k

\* table_len(): the size of the table that contains all possible choices
PickerTableLen(picker) == Len(picker.table)

PickedItems(picker) ==
    [n \in 1 .. Len(picker.picked_indexes) |-> ItemKey(picker, picker.picked_indexes[n])]

\* the amount compared with the capacity reserved for picked_indexes
AmountRefusedOffByOne(picker, amount) == ~picker.repetitive /\ amount > Len(picker.table) + 1

\* pick_indexes refuses the amount before anything is cleared or drawn
AmountRefused(picker, amount) == ~picker.repetitive /\ amount > Len(picker.table)

\* pick_indexes up to the first test of the loop condition
PickStart(picker, amount) ==
    LET called == [picker EXCEPT !.ncalls = @ + 1, !.last = NoReturn] IN
    IF AmountRefused(picker, amount)
    THEN [called EXCEPT !.last = Returned(amount, "InvalidAmount", <<>>)]
    ELSE LET cleared == [called EXCEPT !.picked_indexes = <<>>,
                                       !.table_picked = [i \in DOMAIN @ |-> FALSE],
                                       !.amount = amount]
         IN IF amount = 0
            THEN [cleared EXCEPT !.last = Returned(amount, "Ok", <<>>)]
            ELSE [cleared EXCEPT !.pc = "loop"]

\* the test of the mode inverted
RejectedInRepetitive(picker, i) == picker.repetitive /\ picker.table_picked[i]

\* the index drawn is already in the result of a non-repetitive pick
Rejected(picker, i) == ~picker.repetitive /\ picker.table_picked[i]

\* one round of the while loop of pick_indexes with the word the source delivers;
\* pick() maps the indexes to keys when the loop ends
PickRound(picker, word) ==
    LET i == PickIndex(picker, word)
        drawn == [picker EXCEPT !.rng_pos = @ + 1]
    IN IF Rejected(picker, i) THEN drawn
       ELSE LET pushed == [drawn EXCEPT
                              !.table_picked[i] = IF picker.repetitive THEN @ ELSE TRUE,
                              !.picked_indexes = Append(@, i)]
            IN IF Len(pushed.picked_indexes) < pushed.amount THEN pushed
               ELSE [pushed EXCEPT
                        !.pc = "idle",
                        !.last = Returned(pushed.amount, "Ok", PickedItems(pushed))]

\* ----------------------------------------------------------------- state
VARIABLES
    conf,   \* the Config: table (key -> weight), inversed, repetitive
    ret,    \* the last call made on conf and what it returned
    pk,     \* the pickers built from conf, each with its own random source
    rng,    \* two runs: the words the random sources deliver, the same for both
    log,    \* two runs: what the pick() calls of each picker returned, in order
    calc,   \* the general case of calc_probabilities: its groups and worker threads
    walker  \* one CalcStack running calc()

vars == <<conf, ret, pk, rng, log, calc, walker>>

Pickers == {1, 2}

Configs ==
    {[table |-> t, inversed |-> i, repetitive |-> r] :
        t \in UNION {[D -> Weights] : D \in SUBSET Keys}, i \in BOOLEAN, r \in BOOLEAN}

NoCall == [op |-> "none", pick_amount |-> 0, status |-> "none", map |-> <<>>]

NoPickers ==
    /\ pk = [p \in Pickers |-> NoPicker]
    /\ rng = <<>>
    /\ log = [p \in Pickers |-> <<>>]

NoCalc == [pc |-> "none"]

NoWalker == [pc |-> "none"]

NoWalkers == calc = NoCalc /\ walker = NoWalker

InitCalc ==
    /\ conf \in Configs
    /\ ret = NoCall
    /\ NoPickers
    /\ NoWalkers

CallCalcProbabilities ==
    \E pick_amount \in 0 .. MaxAmount, ord \in IterOrders(DOMAIN conf.table) :
        LET r == CalcProbabilities(conf, ord, pick_amount) IN
        /\ ret = NoCall
        /\ ret' = [op |-> "calc_probabilities", pick_amount |-> pick_amount,
                   status |-> r.status, map |-> r.map]
        /\ UNCHANGED <<conf, pk, rng, log, calc, walker>>

\* the regression test that forces the general case on a table the is_fair() shortcut serves
CallGeneralCase ==
    \E pick_amount \in 2 .. MaxAmount, ord \in IterOrders(DOMAIN conf.table) :
        /\ ret = NoCall
        /\ ~conf.repetitive
        /\ IsFair(conf, ord)
        /\ pick_amount < Cardinality(DOMAIN conf.table)
        /\ ret' = [op |-> "general_case", pick_amount |-> pick_amount,
                   status |-> "Ok", map |-> GeneralCase(Normalized(conf, ord), pick_amount)]
        /\ UNCHANGED <<conf, pk, rng, log, calc, walker>>

\* conf.check()
CallCheck ==
    /\ ret = NoCall
    /\ ret' = [op |-> "check", pick_amount |-> 0, status |-> Check(conf), map |-> <<>>]
    /\ UNCHANGED <<conf, pk, rng, log, calc, walker>>

NextCalc == CallCalcProbabilities \/ CallGeneralCase \/ CallCheck

SpecCalc == InitCalc /\ [][NextCalc]_vars

\* ---------------------------------------------------------- picker runs
InitPick ==
    /\ conf \in {c \in Configs : DOMAIN c.table \subseteq PickKeys}
    /\ ret = NoCall
    /\ NoPickers
    /\ NoWalkers

\* Picker::build_with_rng(conf, rng) on a map that enumerates in the order ord
Build(p) ==
    \E ord \in IterOrders(DOMAIN conf.table) :
        /\ pk[p].state = "none"
        /\ pk' = [pk EXCEPT ![p] = BuildWithRng(conf, ord)]
        /\ UNCHANGED <<conf, ret, rng, log, calc, walker>>

\* Picker::pick(amount), up to the first draw
PickAmount(p, amount) ==
    /\ pk[p].state = "built" /\ pk[p].pc = "idle"
    /\ pk[p].ncalls < MaxCalls
    /\ pk' = [pk EXCEPT ![p] = PickStart(pk[p], amount)]

\* the source fills the 4 bytes with word and the loop of pick_indexes runs one round
DrawWord(p, word) ==
    /\ pk[p].pc = "loop"
    /\ pk[p].rng_pos < MaxDraws
    /\ pk' = [pk EXCEPT ![p] = PickRound(pk[p], word)]

Pick(p) ==
    /\ \E amount \in 0 .. MaxPick : PickAmount(p, amount)
    /\ UNCHANGED <<conf, ret, rng, log, calc, walker>>

Draw(p) ==
    /\ \E word \in 0 .. RandMax : DrawWord(p, word)
    /\ UNCHANGED <<conf, ret, rng, log, calc, walker>>

\* try_fill_bytes fails: pick returns Err(RandError)
DrawFails(p) ==
    /\ pk[p].pc = "loop"
    /\ pk' = [pk EXCEPT ![p].pc = "idle",
                        ![p].last = Returned(pk[p].amount, "RandError", <<>>)]
    /\ UNCHANGED <<conf, ret, rng, log, calc, walker>>

NextPick == Build(1) \/ Pick(1) \/ Draw(1) \/ DrawFails(1)

SpecPick == InitPick /\ [][NextPick]_vars

\* ------------------------------------------------------------- two runs
\* picker 2 is built from the same conf after picker 1 has run; it is asked for
\* the amounts picker 1 was asked for (calls) and its random source delivers
\* the words the source of picker 1 delivered (rng)
RunKeys == {"a", "b"}

\* ------------------------------------------- a picker that is configured again
InitConfigure ==
    /\ conf \in {c \in Configs : DOMAIN c.table \subseteq RunKeys}
    /\ ret = NoCall
    /\ NoPickers
    /\ NoWalkers

\* the arguments of the second configure: every table over RunKeys whose weights
\* are refused (-1), dropped when not inversed (0) or kept (1), in both modes
NewConfigs ==
    {c \in Configs : /\ DOMAIN c.table \subseteq RunKeys
                     /\ \A x \in DOMAIN c.table : c.table[x] \in {-1, 0, 1}}

\* picker.configure(c) between two calls of pick, with a pick still to come, on
\* a map that enumerates in the order ord; ret keeps the argument and the result
Reconfigure(p) ==
    /\ pk[p].state = "built" /\ pk[p].pc = "idle"
    /\ pk[p].ncalls < MaxCalls
    /\ ret = NoCall
    /\ \E c \in NewConfigs :
          \E ord \in IterOrders(DOMAIN c.table) :
              /\ pk' = [pk EXCEPT ![p] = PickerConfigure(pk[p], c, ord)]
              /\ ret' = [op |-> "configure", pick_amount |-> 0,
                         status |-> Check(c), map |-> <<>>, conf |-> c]
    /\ UNCHANGED <<conf, rng, log, calc, walker>>

NextConfigure == Build(1) \/ Pick(1) \/ Draw(1) \/ Reconfigure(1)

SpecConfigure == InitConfigure /\ [][NextConfigure]_vars

InitRuns ==
    /\ conf \in {c \in Configs : DOMAIN c.table \subseteq RunKeys}
    /\ ret = NoCall
    /\ NoPickers
    /\ NoWalkers

\* the log takes what picker p returns in this step
Logged(p) ==
    log' = IF pk'[p].pc = "idle" THEN [log EXCEPT ![p] = Append(@, pk'[p].last)] ELSE log

\* picker 2 repeats the calls of picker 1 as far as they go
RunPick(p) ==
    /\ \E amount \in 0 .. MaxPick :
          /\ PickAmount(p, amount)
          /\ (p = 2 /\ pk[2].ncalls < Len(log[1])) => amount = log[1][pk[2].ncalls + 1].amount
    /\ Logged(p)
    /\ UNCHANGED <<conf, ret, rng, calc, walker>>

RunDraw(p) ==
    /\ \E word \in 0 .. RandMax :
          /\ DrawWord(p, word)
          /\ IF pk[p].rng_pos < Len(rng)
             THEN word = rng[pk[p].rng_pos + 1] /\ UNCHANGED rng
             ELSE rng' = Append(rng, word)
    /\ Logged(p)
    /\ UNCHANGED <<conf, ret, calc, walker>>

FirstRun == pk[2].state = "none" /\ (Build(1) \/ RunPick(1) \/ RunDraw(1))

SecondRun ==
    /\ pk[1].state = "built" /\ pk[1].pc = "idle"
    /\ (Build(2) \/ RunPick(2) \/ RunDraw(2))

NextRuns == FirstRun \/ SecondRun

SpecRuns == InitRuns /\ [][NextRuns]_vars

\* ----------------------------------------------------------- append_str
\* the words of one entry, each a single symbol
EntryForms ==
    {<<>>} \cup {<<n>> : n \in Names} \cup {<<n, v>> : n \in Names, v \in Values}
        \cup {<<"a", "1", "2">>, <<"a", "1", "true">>, <<"delete", "1", "a">>,
              <<"inversed", "1", "true">>, <<"repetitive", "true", "1">>}

\* entry i written out: `name = value<TAB>value`, after a blank from the second entry on
EntryText(e, i) ==
    (IF i > 1 THEN <<" ">> ELSE <<>>)
        \o (IF Len(e) >= 1 THEN <<e[1]>> ELSE <<>>)
        \o (IF Len(e) >= 2 THEN <<" ", "=", " ", e[2]>> ELSE <<>>)
        \o (IF Len(e) >= 3 THEN <<"\t", e[3]>> ELSE <<>>)

\* the separator that follows entry e
EntryEnd(e) == IF Len(e) = 2 THEN ";" ELSE IF Len(e) = 3 THEN "\r" ELSE "\n"

RECURSIVE InputText(_)
InputText(es) ==
    IF Len(es) = 1 THEN EntryText(es[1], 1)
    ELSE InputText(SubSeq(es, 1, Len(es) - 1))
             \o <<EntryEnd(es[Len(es) - 1])>> \o EntryText(es[Len(es)], Len(es))

Inputs == {InputText(es) : es \in UNION {[1 .. n -> EntryForms] : n \in 1 .. MaxEntries}}

InitAppend ==
    /\ conf \in {[table |-> t, inversed |-> i, repetitive |-> r] :
                    t \in {<<>>, [x \in {<<"a">>} |-> 1]},
                    i \in BOOLEAN, r \in BOOLEAN}
    /\ ret = NoCall
    /\ NoPickers
    /\ NoWalkers

\* conf.append_str(str_items)
CallAppendStr ==
    /\ ret = NoCall
    /\ \E str_items \in Inputs :
          /\ conf' = AppendStr(conf, str_items)
          /\ ret' = [op |-> "append_str", pick_amount |-> 0, status |-> "Ok", map |-> <<>>,
                     str_items |-> str_items, before |-> conf]
    /\ UNCHANGED <<pk, rng, log, calc, walker>>

NextAppend == CallAppendStr

SpecAppend == InitAppend /\ [][NextAppend]_vars

\* ------------------------------------------------------- worker threads
\* the general case of calc_probabilities from the loop over the groups on
InitThreads ==
    /\ conf = [table |-> <<>>, inversed |-> FALSE, repetitive |-> FALSE]
    /\ ret = NoCall
    /\ NoPickers
    /\ walker = NoWalker
    /\ \E parallelism \in 1 .. MaxParallelism, len \in 1 .. MaxTableLen :
          calc = CalcStart(parallelism, len)

Spawn ==
    /\ calc.pc = "spawn"
    /\ calc' = SpawnNext(calc)
    /\ UNCHANGED <<conf, ret, pk, rng, log, walker>>

\* the calc() of walker i_th returns: its thread ends
WorkerReturns ==
    \E i_th \in calc.running :
        /\ calc' = [calc EXCEPT !.running = @ \ {i_th}, !.returned = @ \cup {i_th}]
        /\ UNCHANGED <<conf, ret, pk, rng, log, walker>>

Join ==
    /\ calc.pc = "join"
    /\ Head(calc.joining) \in calc.returned
    /\ calc' = JoinNext(calc)
    /\ UNCHANGED <<conf, ret, pk, rng, log, walker>>

NextThreads == Spawn \/ WorkerReturns \/ Join

SpecThreads == InitThreads /\ [][NextThreads]_vars

\* ------------------------------------------------------------ one walker
\* the tables a walker may be given: vec_table of a config over Keys, normalized
WalkTables ==
    {[i \in 1 .. Len(raw) |-> RDiv(raw[i], RSum(raw))] :
        raw \in UNION {[1 .. n -> {<<w, 1>> : w \in 1 .. MaxWeight}]
                           \cup [1 .. n -> {<<1, w>> : w \in 1 .. MaxWeight}] :
                           n \in 1 .. Cardinality(Keys)}}

\* ------------------------------------------- the workers of the general case
\* the general case on a normalized table of up to Cardinality(PickKeys) items
InitWorkers ==
    /\ conf = [table |-> <<>>, inversed |-> FALSE, repetitive |-> FALSE]
    /\ ret = NoCall
    /\ NoPickers
    /\ walker = NoWalker
    /\ \E parallelism \in 1 .. MaxParallelism, pick_amount \in 2 .. MaxPick :
          \E table_val \in {t \in WalkTables : Len(t) <= Cardinality(PickKeys)} :
              calc = WorkersStart(parallelism, table_val, pick_amount)

SpawnWorker ==
    /\ calc.pc = "spawn"
    /\ calc' = SpawnNext(calc)
    /\ UNCHANGED <<conf, ret, pk, rng, log, walker>>

\* a spawned thread is scheduled for one round of calc(), also after the
\* orchestrator has returned early
WorkerStep ==
    \E i_th \in calc.running :
        /\ calc' = WorkerRound(calc, i_th)
        /\ UNCHANGED <<conf, ret, pk, rng, log, walker>>

\* a spawned thread panics: its join will return Err
WorkerPanics ==
    \E i_th \in calc.running :
        /\ calc' = [calc EXCEPT !.running = @ \ {i_th}, !.panicked = @ \cup {i_th}]
        /\ UNCHANGED <<conf, ret, pk, rng, log, walker>>

\* hdl.join() returns once the thread of the oldest handle has ended
JoinStep ==
    /\ calc.pc = "join"
    /\ Head(calc.joining) \in calc.returned \cup calc.panicked
    /\ calc' = JoinWorker(calc)
    /\ UNCHANGED <<conf, ret, pk, rng, log, walker>>

NextWorkers == SpawnWorker \/ WorkerStep \/ WorkerPanics \/ JoinStep

SpecWorkers == InitWorkers /\ [][NextWorkers]_vars

\* CalcStack::new(table, pick_amount, table_picked), about to run calc()
InitWalk ==
    /\ conf = [table |-> <<>>, inversed |-> FALSE, repetitive |-> FALSE]
    /\ ret = NoCall
    /\ NoPickers
    /\ calc = NoCalc
    /\ \E table \in WalkTables, pick_amount \in 0 .. MaxAmount :
          \E table_picked \in [1 .. Len(table) -> BOOLEAN] :
              LET new == CalcStackNew(table, pick_amount, table_picked)
              IN walker = [pc |-> "calc", pick_amount |-> pick_amount,
                           new |-> new, cs |-> new, op |-> "new"]

\* one round of the loop of calc(): go_down, else go_right, else go_up_right
Walk(op, cs) ==
    /\ walker.pc = "calc"
    /\ walker' = [walker EXCEPT !.cs = cs, !.op = op]
    /\ UNCHANGED <<conf, ret, pk, rng, log, calc>>

WalkDown == GoDown(walker.cs).ok /\ Walk("go_down", GoDown(walker.cs).cs)

WalkRight ==
    /\ ~GoDown(walker.cs).ok /\ GoRight(walker.cs).ok
    /\ Walk("go_right", GoRight(walker.cs).cs)

WalkUpRight ==
    /\ ~GoDown(walker.cs).ok /\ ~GoRight(walker.cs).ok /\ GoUpRight(walker.cs).ok
    /\ Walk("go_up_right", GoUpRight(walker.cs).cs)

\* go_up_right has emptied the stack and found nothing: calc() returns self.result
WalkReturn ==
    /\ walker.pc = "calc"
    /\ ~GoDown(walker.cs).ok /\ ~GoRight(walker.cs).ok /\ ~GoUpRight(walker.cs).ok
    /\ walker' = [walker EXCEPT !.pc = "returned", !.cs = GoUpRight(walker.cs).cs,
                                !.op = "return"]
    /\ UNCHANGED <<conf, ret, pk, rng, log, calc>>

NextWalk == WalkDown \/ WalkRight \/ WalkUpRight \/ WalkReturn

SpecWalk == InitWalk /\ [][NextWalk]_vars

\* the thread that runs calc() is scheduled until calc() returns: weak fairness
\* of NextWalk, written out.  NextWalk is enabled exactly while calc() runs (the
\* guards of its four disjuncts are exhaustive), and every step is one of NextWalk.
SpecWalkFair == SpecWalk /\ ([]<>(walker.pc # "calc") \/ []<><<NextWalk>>_vars)

\* ============================================= properties of calc_probabilities
Valid(c) == Check(c) = "Ok"

Called == ret.op = "calc_probabilities"

TableLen(c) == Cardinality(DOMAIN c.table)

\* the weight vec_table gives a key before normalization (0: the key is dropped)
RawWeight(c, x) ==
    IF c.inversed THEN <<1, c.table[x]>>
    ELSE IF c.table[x] > 0 THEN <<c.table[x], 1>> ELSE RZero

PossibleKeys(c) == {x \in DOMAIN c.table : c.inversed \/ c.table[x] > 0}

RECURSIVE SumOver(_, _)
SumOver(S, f) ==
    IF S = {} THEN RZero
    ELSE LET x == CHOOSE y \in S : TRUE IN RAdd(f[x], SumOver(S \ {x}, f))

\* the normalized weight of every key of a valid config, independent of any order
NormWeight(c) ==
    LET raw == [x \in DOMAIN c.table |-> RawWeight(c, x)]
        total == SumOver(DOMAIN c.table, raw)
    IN [x \in DOMAIN c.table |-> RDiv(raw[x], total)]

\* ordered sequences of k distinct keys of S
DistinctSeqs(S, k) ==
    {s \in [1 .. k -> S] : \A i, j \in 1 .. k : i # j => s[i] # s[j]}

\* product of the step probabilities weight / (sum of weights of items not yet picked)
RECURSIVE SeqProb(_, _, _)
SeqProb(w, s, t) ==
    IF t = 0 THEN ROne
    ELSE LET before == {s[u] : u \in 1 .. t - 1}
             rest == SumOver(DOMAIN w \ before, w)
         IN RMul(SeqProb(w, s, t - 1), RDiv(w[s[t]], rest))

\* inclusion probability of key x in a sample of k items drawn one after another
InclusionProb(w, k, x) ==
    LET with == {s \in DistinctSeqs(DOMAIN w, k) : \E t \in 1 .. k : s[t] = x}
    IN SumOver(with, [s \in with |-> SeqProb(w, s, k)])

GeneralPath ==
    /\ Called /\ Valid(conf) /\ ~conf.repetitive
    /\ ret.pick_amount > 1 /\ ret.pick_amount < TableLen(conf)
    /\ \E x, y \in DOMAIN conf.table : conf.table[x] # conf.table[y]

C2_SumIsAmount ==
    (/\ Called /\ Valid(conf) /\ ~conf.repetitive
     /\ ret.pick_amount >= 1 /\ ret.pick_amount < TableLen(conf)) =>
        /\ ret.status = "Ok"
        /\ SumOver(DOMAIN ret.map, ret.map) = <<ret.pick_amount, 1>>

\* C3: in non-repetitive mode a valid config gets Err(InvalidAmount) exactly
\* when pick_amount exceeds the amount of possible items (the picker's table_len()).
C3_InvalidAmount ==
    (Called /\ Valid(conf) /\ ~conf.repetitive) =>
        (ret.status = "InvalidAmount" <=> ret.pick_amount > Cardinality(PossibleKeys(conf)))

\* C4: a table that is empty, has a negative weight, or has a zero weight while
\* inversed, always gets Err(InvalidTable), whatever pick_amount and mode.
C4_InvalidTable ==
    (/\ Called
     /\ \/ DOMAIN conf.table = {}
        \/ \E x \in DOMAIN conf.table : conf.table[x] < 0
        \/ \E x \in DOMAIN conf.table : conf.inversed /\ conf.table[x] = 0) =>
        ret.status = "InvalidTable"

\* 1 - (1 - n/d)^k over the common denominator d^k
RECURSIVE IPow(_, _)
IPow(b, e) == IF e = 0 THEN 1 ELSE b * IPow(b, e - 1)

ClosedForm(w, k) == Rat(IPow(w[2], k) - IPow(w[2] - w[1], k), IPow(w[2], k))

\* C7: with repetitive = true every valid table and every k (also k above the
\* table size) gets Ok, and every item i gets 1 - (1 - w_i)^k for its normalized
\* weight w_i; a key vec_table drops (w_i = 0) is absent or 0.
C7_Repetitive ==
    (Called /\ Valid(conf) /\ conf.repetitive) =>
        /\ ret.status = "Ok"
        /\ DOMAIN ret.map \subseteq DOMAIN conf.table
        /\ PossibleKeys(conf) \subseteq DOMAIN ret.map
        /\ \A x \in DOMAIN ret.map :
              ret.map[x] = ClosedForm(NormWeight(conf)[x], ret.pick_amount)

C7_Witness ==
    /\ Called /\ Valid(conf) /\ conf.repetitive /\ ret.status = "Ok"
    /\ ret.pick_amount > TableLen(conf) /\ TableLen(conf) >= 3
    /\ \E x, y \in DOMAIN ret.map : ret.map[x] # ret.map[y]

\* C8: for a table of all-equal valid weights, non-repetitive mode and
\* 1 < k < n, the general enumeration yields k / n for every item.
C8_FairGeneralCase ==
    ret.op = "general_case" =>
        /\ DOMAIN ret.map = DOMAIN conf.table
        /\ \A x \in DOMAIN ret.map :
              ret.map[x][1] * TableLen(conf) = ret.pick_amount * ret.map[x][2]
        /\ \A ord \in IterOrders(DOMAIN conf.table) :
              CalcProbabilities(conf, ord, ret.pick_amount) = Ok(ret.map)

C8_Witness ==
    /\ ret.op = "general_case" /\ ret.pick_amount = 3 /\ TableLen(conf) = 4
    /\ conf.inversed

Distinct(items) == \A i, j \in DOMAIN items : i # j => items[i] # items[j]

\* C5: a successful pick(amount) returns exactly amount items of the table; in
\* non-repetitive mode they are pairwise distinct (in repetitive mode they may
\* repeat and amount may exceed table_len()).
C5_PickedItems ==
    \A p \in Pickers :
        (pk[p].pc = "idle" /\ pk[p].last.status = "Ok") =>
            /\ Len(pk[p].last.items) = pk[p].last.amount
            /\ \A i \in DOMAIN pk[p].last.items :
                  \E j \in DOMAIN pk[p].table : pk[p].last.items[i] = pk[p].table[j].k
            /\ ~pk[p].repetitive => Distinct(pk[p].last.items)

\* a non-repetitive pick of 2 items out of 3 that had to reject a word
C5_Witness ==
    /\ ~pk[1].repetitive /\ pk[1].pc = "idle" /\ pk[1].last.status = "Ok"
    /\ pk[1].ncalls = 1 /\ pk[1].last.amount = 2 /\ pk[1].rng_pos = 3
    /\ Len(pk[1].table) = 3

\* a repetitive pick of more items than the table holds, with a repeated item
C5_WitnessRepetitive ==
    /\ pk[1].repetitive /\ pk[1].pc = "idle" /\ pk[1].last.status = "Ok"
    /\ pk[1].last.amount > Len(pk[1].table) /\ Len(pk[1].table) = 2
    /\ ~Distinct(pk[1].last.items)

\* picker p is asked for amount items in this step
Asked(p, amount) ==
    /\ pk'[p].ncalls = pk[p].ncalls + 1
    /\ \/ pk'[p].pc = "loop" /\ pk'[p].amount = amount
       \/ pk'[p].pc = "idle" /\ pk'[p].last.amount = amount

\* C6: in non-repetitive mode pick(amount) with amount > table_len() returns
\* Err(InvalidAmount) before any draw: no word is taken from the random source,
\* the loop is not entered, picked_indexes and table_picked stay as they were.
C6_RefusedBeforeDraw ==
    [][\A p \in Pickers : \A amount \in 0 .. MaxPick :
          (Asked(p, amount) /\ ~pk[p].repetitive /\ amount > Len(pk[p].table)) =>
             /\ pk'[p].pc = "idle"
             /\ pk'[p].last = Returned(amount, "InvalidAmount", <<>>)
             /\ pk'[p].rng_pos = pk[p].rng_pos
             /\ pk'[p].picked_indexes = pk[p].picked_indexes
             /\ pk'[p].table_picked = pk[p].table_picked]_vars

\* an amount refused after a pick that left indexes in picked_indexes
C6_Witness ==
    /\ pk[1].ncalls = 2 /\ pk[1].pc = "idle"
    /\ pk[1].last.status = "InvalidAmount"
    /\ Len(pk[1].picked_indexes) = 2
    /\ \E i \in DOMAIN pk[1].table_picked : pk[1].table_picked[i]

\* C10: two pickers built from equal configs, fed the same words for the same
\* sequence of pick(amount) calls, return identical item sequences.
C10_Deterministic ==
    \A n \in DOMAIN log[1] \cap DOMAIN log[2] :
        (log[1][n].status = "Ok" /\ log[2][n].status = "Ok") =>
            log[1][n].items = log[2][n].items

\* ======================================================== properties of Config
\* C11: check() returns Ok if and only if no weight is negative, no weight is
\* zero while inversed is true, and at least one weight is strictly positive;
\* otherwise (also for the empty and the all-zero table) Err(InvalidTable).
C11_Check ==
    ret.op = "check" =>
        LET negative == {x \in DOMAIN conf.table : conf.table[x] < 0}
            zero     == {x \in DOMAIN conf.table : conf.table[x] = 0}
            positive == DOMAIN conf.table \ (negative \cup zero)
            good     == /\ negative = {}
                        /\ conf.inversed => zero = {}
                        /\ positive # {}
        IN /\ good => ret.status = "Ok"
           /\ ~good => ret.status = "InvalidTable"

\* a table of positive and zero weights that is refused because of inversed
C11_Witness ==
    /\ ret.op = "check" /\ ret.status = "InvalidTable" /\ conf.inversed
    /\ \A x \in DOMAIN conf.table : conf.table[x] >= 0
    /\ \E x, y \in DOMAIN conf.table : conf.table[x] = 0 /\ conf.table[y] > 0

\* C12: build_with_rng(conf) succeeds exactly when conf.check() succeeds and
\* fails with InvalidTable otherwise; on success table_len() is the number of
\* entries with weight > 0 when inversed is false and of all entries when
\* inversed is true.
C12_BuildTableLen ==
    \A p \in Pickers :
        pk[p].state # "none" =>
            /\ pk[p].state = (IF Check(conf) = "Ok" THEN "built" ELSE "InvalidTable")
            /\ pk[p].state = "built" =>
                  PickerTableLen(pk[p]) =
                      IF conf.inversed THEN Cardinality(DOMAIN conf.table)
                      ELSE Cardinality({x \in DOMAIN conf.table : conf.table[x] > 0})

\* a picker built from a table whose zero-weight entry was dropped
C12_Witness ==
    /\ pk[1].state = "built" /\ ~conf.inversed
    /\ Cardinality(DOMAIN conf.table) = 3 /\ PickerTableLen(pk[1]) = 2

\* the entries of the input: the words of every line
EntriesOf(str_items) ==
    LET lines == Split(str_items, LineSeps)
    IN [i \in 1 .. Len(lines) |-> SplitLine(lines[i])]

ReservedNames ==
    {<<"delete">>, <<"inversed">>, <<"repetitive">>, <<"power_inversed">>,
     <<"repetitive_picking">>}

IsComment(e) == e # <<>> /\ e[1][1] = "#"

\* the value of an entry: its last word, when it is not the name
HasValue(e) == Len(e) >= 2

ValueOf(e) == e[Len(e)]

\* entry e is `x value` with a number for the value
SetsItem(e, x) ==
    /\ HasValue(e) /\ ~IsComment(e) /\ e[1] = x /\ x \notin ReservedNames
    /\ ValueOf(e) \in {<<"0">>, <<"1">>, <<"2">>}

NumberOf(w) == IF w = <<"0">> THEN 0 ELSE IF w = <<"1">> THEN 1 ELSE 2

\* entry e is `delete x`
DeletesItem(e, x) == HasValue(e) /\ e[1] = <<"delete">> /\ ValueOf(e) = x

\* entry e is `flag bool`, or the old name of the flag
SetsFlag(e, flag, old) ==
    \/ e # <<>> /\ e[1] = <<old>>
    \/ HasValue(e) /\ e[1] = <<flag>> /\ ValueOf(e) \in {<<"true">>, <<"false">>}

FlagOf(e, old) == e[1] = <<old>> \/ ValueOf(e) = <<"true">>

\* the last of the entries es that satisfies Writes, 0 when none does
LastWriter(es, Writes(_)) ==
    LET W == {i \in 1 .. Len(es) : Writes(es[i])}
    IN IF W = {} THEN 0 ELSE CHOOSE i \in W : \A j \in W : j <= i

\* C13: append_str applies the entries of its input in order, the last writer
\* of a key or flag winning: `name value` sets table[name], `delete name`
\* removes it, `inversed`/`repetitive` with a bool set the flag,
\* `power_inversed`/`repetitive_picking` set it to true; comments, entries
\* without a value and entries whose value does not parse change nothing, and
\* no reserved name becomes a table item.  The value of an entry is its last word.
C13_AppendStr ==
    ret.op = "append_str" =>
        LET es == EntriesOf(ret.str_items)
            before == ret.before
            words == DOMAIN before.table \cup DOMAIN conf.table
                         \cup UNION {{es[i][j] : j \in 1 .. Len(es[i])} : i \in 1 .. Len(es)}
            ItemOk(x) ==
                LET Writes(e) == SetsItem(e, x) \/ DeletesItem(e, x)
                    i == LastWriter(es, Writes)
                IN IF i = 0
                   THEN /\ x \in DOMAIN conf.table <=> x \in DOMAIN before.table
                        /\ x \in DOMAIN conf.table => conf.table[x] = before.table[x]
                   ELSE IF SetsItem(es[i], x)
                        THEN x \in DOMAIN conf.table /\ conf.table[x] = NumberOf(ValueOf(es[i]))
                        ELSE x \notin DOMAIN conf.table
            FlagOk(flag, old, now, was) ==
                LET Writes(e) == SetsFlag(e, flag, old)
                    i == LastWriter(es, Writes)
                IN now = IF i = 0 THEN was ELSE FlagOf(es[i], old)
        IN /\ \A x \in words : ItemOk(x)
           /\ FlagOk("inversed", "power_inversed", conf.inversed, before.inversed)
           /\ FlagOk("repetitive", "repetitive_picking", conf.repetitive, before.repetitive)
           /\ DOMAIN conf.table \cap ReservedNames = {}

\* `a = 1; a = 2`: the second entry wins
C13_Witness ==
    /\ ret.op = "append_str"
    /\ LET es == EntriesOf(ret.str_items) IN
       /\ Len(es) = 2
       /\ es[1] = <<<<"a">>, <<"1">>>> /\ es[2] = <<<<"a">>, <<"2">>>>
    /\ conf.table[<<"a">>] = 2

\* C14: in non-repetitive mode, in every state of the loop of pick_indexes
\* (fewer than amount indexes collected, amount <= table_len()) some word the
\* random source can deliver maps through pick_index to an index not yet
\* picked, so the loop can always make progress.
C14_CanProgress ==
    \A p \in Pickers :
        (pk[p].pc = "loop" /\ ~pk[p].repetitive) =>
            /\ Len(pk[p].picked_indexes) < pk[p].amount
            /\ pk[p].amount <= PickerTableLen(pk[p])
            /\ \E word \in 0 .. RandMax : ~pk[p].table_picked[PickIndex(pk[p], word)]

\* C15: walkers are dispatched in groups sized to the available parallelism and
\* the groups are processed one after another: at no time are more worker
\* threads alive than the available parallelism.
C15_ThreadsBounded ==
    calc.pc # "none" => Cardinality(calc.running) <= calc.parallelism

\* C20: no reduction step happens while some worker is still running: when a
\* sub_result has been added to calc_result, every worker of every group has completed.
C20_ReduceAfterAll ==
    (calc.pc # "none" /\ calc.reduced # <<>>) =>
        /\ calc.running = {}
        /\ calc.returned = 1 .. calc.len

\* ===================================================== properties of CalcStack
WalkPrefix == {i \in DOMAIN walker.new.table_picked : walker.new.table_picked[i]}

WalkFree == DOMAIN walker.new.table_picked \ WalkPrefix

\* the indexes on the stack, bottom first
IdxStack(cs) == [t \in 1 .. Len(cs.stack) |-> cs.stack[t][1]]

\* the nodes of the tree: sequences of distinct non-prefix indexes of length 1 .. stack_size
ValidStacks ==
    UNION {DistinctSeqs(WalkFree, d) :
              d \in {e \in 1 .. walker.new.stack_size : e <= Cardinality(WalkFree)}}

\* s comes before u in preorder with siblings in ascending order
Before(s, u) ==
    LET diff == {i \in 1 .. Len(s) : i <= Len(u) /\ s[i] # u[i]} IN
    IF diff = {} THEN Len(s) < Len(u)
    ELSE LET i == CHOOSE j \in diff : \A k \in diff : j <= k IN s[i] < u[i]

\* C16: a walker visits the sequences of distinct non-prefix indexes of length
\* 1 .. stack_size in lexicographic preorder, each exactly once: every step
\* moves the stack to the next sequence in that order, calc() returns only when
\* none is left, and every visit adds the probability of the new stack top to
\* result[] of the index selected last and to nothing else.
C16_PreorderOnce ==
    [][walker.pc = "calc" =>
          LET s == IdxStack(walker.cs)
              later == {u \in ValidStacks : Before(s, u)}
          IN IF walker'.pc = "returned"
             THEN later = {} /\ walker'.cs.result = walker.cs.result
             ELSE LET s2 == IdxStack(walker'.cs)
                      top == walker'.cs.stack[Len(s2)]
                  IN /\ s2 \in later
                     /\ \A u \in later : u = s2 \/ Before(s2, u)
                     /\ walker'.cs.result =
                            [walker.cs.result EXCEPT ![top[1]] = RAdd(@, top[2])]]_vars

\* two levels up and one to the right in a tree of depth 3 over 4 indexes
C16_Witness ==
    /\ walker.pc = "calc" /\ walker.op = "go_up_right"
    /\ walker.new.stack_size = 3 /\ Cardinality(WalkFree) = 4
    /\ Len(walker.cs.stack) = 1

\* a walker as calc_probabilities builds it: one prefix index, pick_amount >= 2
WalkerOfCalc ==
    /\ walker.pc # "none"
    /\ Cardinality(WalkPrefix) = 1 /\ walker.pick_amount >= 2

\* C17: after every step of a walker built by calc_probabilities stack.len() <=
\* stack_size; the stack indexes are pairwise distinct, in range and not in the
\* prefix; table_picked is true exactly for the prefix and the stack indexes;
\* rem_width is the sum of the weights of the indexes with table_picked false.
C17_StackInvariant ==
    WalkerOfCalc =>
        LET cs == walker.cs
            s == IdxStack(cs)
            free == {i \in DOMAIN cs.table : ~cs.table_picked[i]}
        IN /\ Len(cs.stack) <= cs.stack_size
           /\ DOMAIN cs.table_picked = DOMAIN cs.table /\ DOMAIN cs.result = DOMAIN cs.table
           /\ \A t \in DOMAIN s : s[t] \in DOMAIN cs.table /\ s[t] \notin WalkPrefix
           /\ \A t, u \in DOMAIN s : t # u => s[t] # s[u]
           /\ \A i \in DOMAIN cs.table :
                 cs.table_picked[i] <=> (i \in WalkPrefix \/ \E t \in DOMAIN s : s[t] = i)
           /\ cs.rem_width = SumOver(free, cs.table)

\* a sibling taken at depth 2 of a walker of calc_probabilities
C17_Witness ==
    /\ WalkerOfCalc /\ walker.op = "go_right"
    /\ Len(walker.cs.stack) = 2 /\ Len(walker.cs.table) = 4

\* product over the positions u <= t of weight[s[u]] / (remaining mass before step u)
RECURSIVE PathProb(_, _)
PathProb(s, t) ==
    IF t = 0 THEN ROne
    ELSE LET before == SumOver({s[u] : u \in 1 .. t - 1}, walker.new.table)
             rest == RSub(walker.new.rem_width, before)
         IN RMul(PathProb(s, t - 1), RDiv(walker.new.table[s[t]], rest))

\* C18: at every node a walker visits, by go_down, go_right or go_up_right, the
\* probability on the stack is the exact path probability; what calc() returns
\* for index i is the sum of the path probabilities of the nodes that end in
\* i, and the nodes of every depth contribute 1 in all.
C18_PathProbability ==
    walker.pc # "none" =>
        LET s == IdxStack(walker.cs) IN
        /\ \A t \in DOMAIN s : walker.cs.stack[t][2] = PathProb(s, t)
        /\ walker.pc = "returned" =>
              /\ \A i \in DOMAIN walker.cs.table :
                    LET ends == {u \in ValidStacks : u[Len(u)] = i}
                    IN walker.cs.result[i] =
                           SumOver(ends, [u \in ends |-> PathProb(u, Len(u))])
              /\ RSum(walker.cs.result) =
                    <<Cardinality({Len(u) : u \in ValidStacks}), 1>>

\* go_right called by go_up_right at depth 2
C18_Witness ==
    /\ walker.pc = "calc" /\ walker.op = "go_up_right"
    /\ Len(walker.cs.stack) = 2 /\ walker.new.stack_size = 3
    /\ \E i, j \in DOMAIN walker.cs.table : walker.cs.table[i] # walker.cs.table[j]

\* calc() has returned with the walker as CalcStack::new left it
Unwound ==
    /\ walker.cs.stack = <<>>
    /\ walker.cs.table_picked = walker.new.table_picked
    /\ walker.cs.rem_width = walker.new.rem_width

\* C19: every traversal terminates, for every table, prefix and stack_size;
\* when calc() returns the stack is empty, table_picked marks the prefix again
\* and rem_width has its initial value.
C19_Terminates == <>(walker.pc = "returned" /\ Unwound)

\* a traversal that ended with stack_size above the number of unpicked indexes
C19_Witness ==
    /\ walker.pc = "returned" /\ Unwound
    /\ walker.new.stack_size > Cardinality(WalkFree) /\ Cardinality(WalkFree) = 3
    /\ Cardinality(WalkPrefix) = 1

\* ============================================== further properties (calc, picker)
\* C24: for a valid config with inversed = false, whatever pick_amount and
\* mode, an item of weight 0 is absent from the returned map or mapped to 0.
C24_ZeroWeightNeverPicked ==
    (Called /\ Valid(conf) /\ ~conf.inversed /\ ret.status = "Ok") =>
        \A x \in DOMAIN conf.table :
            conf.table[x] = 0 => (x \notin DOMAIN ret.map \/ ret.map[x] = RZero)

\* one fixed enumeration of the keys of conf.table
FixedOrder == CHOOSE o \in IterOrders(DOMAIN conf.table) : TRUE

\* C26: on the general path the returned key -> probability map does not
\* depend on the order in which vec_table enumerated the items: whatever
\* order the call iterated in, it returns what the fixed order returns.
C26_OrderIndependent ==
    GeneralPath =>
        LET r == CalcProbabilities(conf, FixedOrder, ret.pick_amount) IN
        ret.status = r.status /\ ret.map = r.map

\* a general-path call on four inverted weights that are not all equal
C26_Witness ==
    /\ GeneralPath /\ ret.status = "Ok" /\ conf.inversed
    /\ ret.pick_amount = 2 /\ Cardinality(DOMAIN ret.map) = 4
    /\ \E x, y \in DOMAIN ret.map : ret.map[x] # ret.map[y]

\* C23: pick_index returns an index of the normalized table, in
\* 1 .. table_len(): the smallest i whose grid entry is at least the scaled
\* random value, and the last index when no grid entry is; every index a
\* pick has recorded is such an index.
C23_PickIndexInRange ==
    \A p \in DOMAIN pk :
        pk[p].state = "built" =>
            /\ \A n \in 1 .. Len(pk[p].picked_indexes) :
                   pk[p].picked_indexes[n] \in 1 .. PickerTableLen(pk[p])
            /\ \A word \in 0 .. RandMax :
                   LET i == PickIndex(pk[p], word)
                       val == ScaledVal(pk[p], word)
                       reached == {j \in 1 .. Len(pk[p].grid) : RLeq(val, pk[p].grid[j])}
                   IN /\ i \in 1 .. PickerTableLen(pk[p])
                      /\ reached # {} => i \in reached /\ \A j \in reached : i <= j
                      /\ reached = {} => i = PickerTableLen(pk[p])

\* a picker of three items that has drawn its last and its first index
C23_Witness ==
    /\ pk[1].state = "built" /\ PickerTableLen(pk[1]) = 3
    /\ Len(pk[1].picked_indexes) = 2
    /\ pk[1].picked_indexes[1] = 3 /\ pk[1].picked_indexes[2] = 1

\* the configuration picker 1 works under: the last one configure accepted
Configured == IF ret.op = "configure" /\ ret.status = "Ok" THEN ret.conf ELSE conf

\* the step is a call of configure on picker 1
ConfigureStep == ret.op = "none" /\ ret'.op = "configure"

\* C25: configure(conf) with a conf that fails check() returns
\* Err(InvalidTable) and leaves every field of the picker as it was, and the
\* picker keeps the table of the previous configuration in the picks that
\* follow; a successful configure leaves grid, table and table_picked with
\* length table_len(), the number of possible items of the new conf, and
\* grid_width equal to the last grid entry, whatever the old and new sizes.
C25_Configure ==
    /\ [][ConfigureStep =>
             IF Check(ret'.conf) # "Ok"
             THEN ret'.status = "InvalidTable" /\ pk'[1] = pk[1]
             ELSE /\ ret'.status = "Ok"
                  /\ PickerTableLen(pk'[1]) = Cardinality(PossibleKeys(ret'.conf))
                  /\ Len(pk'[1].grid) = PickerTableLen(pk'[1])
                  /\ Len(pk'[1].table_picked) = PickerTableLen(pk'[1])
                  /\ pk'[1].grid_width = pk'[1].grid[Len(pk'[1].grid)]
                  /\ pk'[1].repetitive = ret'.conf.repetitive]_vars
    /\ [][(ret' = ret /\ pk'[1].last # pk[1].last /\ pk'[1].last.status = "Ok") =>
             \A n \in 1 .. Len(pk'[1].last.items) :
                 pk'[1].last.items[n] \in PossibleKeys(Configured)]_vars
    /\ [](pk[1].state = "built" =>
             /\ {pk[1].table[i].k : i \in 1 .. Len(pk[1].table)} = PossibleKeys(Configured)
             /\ pk[1].repetitive = Configured.repetitive
             /\ Len(pk[1].grid) = Len(pk[1].table)
             /\ Len(pk[1].table_picked) = Len(pk[1].table))

\* a pick of two items under way after a refused configure (configure is
\* only called between picks), its first item drawn
C25_Witness ==
    /\ ret.op = "configure" /\ ret.status = "InvalidTable"
    /\ pk[1].pc = "loop" /\ pk[1].amount = 2 /\ Len(pk[1].picked_indexes) = 1
    /\ PickerTableLen(pk[1]) = 2 /\ pk[1].ncalls = 2

\* a picker of one item configured with a table of two items, then drawing
\* the second
C25_WitnessLarger ==
    /\ ret.op = "configure" /\ ret.status = "Ok"
    /\ Cardinality(PossibleKeys(conf)) = 1 /\ Cardinality(PossibleKeys(ret.conf)) = 2
    /\ pk[1].pc = "loop" /\ pk[1].picked_indexes = <<2>> /\ ~pk[1].repetitive

\* a picker of two items that had picked both, configured with a table of one
C25_WitnessSmaller ==
    /\ ret.op = "configure" /\ ret.status = "Ok"
    /\ Cardinality(PossibleKeys(conf)) = 2 /\ Cardinality(PossibleKeys(ret.conf)) = 1
    /\ Len(pk[1].picked_indexes) = 2 /\ PickerTableLen(pk[1]) = 1

\* ============================================== properties of the workers
\* the indexes 1 .. n in spawn order
SpawnOrder(n) == [i \in 1 .. n |-> i]

\* a step that changes the CalcStack of a worker is a step of that running
\* worker and changes no other CalcStack and not calc_result
OwnStackOnly ==
    \A i \in DOMAIN calc.calcs :
        calc'.calcs[i] # calc.calcs[i] =>
            /\ i \in calc.running
            /\ \A j \in DOMAIN calc.calcs : j # i => calc'.calcs[j] = calc.calcs[j]
            /\ calc'.calc_result = calc.calc_result

\* a step that changes calc_result is the join of the oldest handle
JoinWritesOnly ==
    calc'.calc_result # calc.calc_result =>
        /\ calc.pc = "join"
        /\ calc'.reduced = Append(calc.reduced, Head(calc.joining))
        /\ calc'.calcs = calc.calcs

\* calc_result is the sequential reduction over the walkers joined so far
SequentialResult ==
    /\ calc.reduced = SpawnOrder(Len(calc.reduced))
    /\ calc.calc_result = Reduce(calc.table_val, calc.pick_amount, Len(calc.reduced))
    /\ calc.status = "Ok" => Len(calc.reduced) = Len(calc.table_val)

\* C21: a round of a worker changes the CalcStack of that worker alone and
\* never calc_result; calc_result is written only by a join, for the oldest
\* handle, so in spawn order; and in every interleaving of rounds, panics and
\* joins the returned vector is the one the sequential reduction over the
\* table gives, a function of the table and pick_amount alone.
C21_WorkersIndependent == [][OwnStackOnly /\ JoinWritesOnly]_vars /\ []SequentialResult

\* the result of a table of three unequal weights, every worker joined
C21_Witness ==
    /\ calc.status = "Ok" /\ Len(calc.table_val) = 3 /\ calc.pick_amount = 2
    /\ \E i, j \in 1 .. 3 : calc.calc_result[i] # calc.calc_result[j]

\* the oldest handle still unjoined while a later worker has already returned
C21_WitnessOutOfOrder ==
    /\ calc.pc = "join" /\ calc.reduced = <<>>
    /\ 1 \in calc.running /\ calc.calcs[1].stack # <<>>
    /\ calc.returned = {2, 3}

\* a join fails exactly on a lost worker, and a failed call stays failed
FailedJoin ==
    /\ (calc.pc = "join" /\ calc'.pc = "failed") => Head(calc.joining) \in calc.panicked
    /\ (/\ calc.pc = "join" /\ Head(calc.joining) \in calc.panicked
        /\ (calc'.pc # calc.pc \/ calc'.joining # calc.joining)) =>
           (calc'.pc = "failed" /\ calc'.status = "ThreadError")
    /\ calc.pc = "failed" =>
           /\ calc'.pc = "failed" /\ calc'.status = "ThreadError"
           /\ calc'.calc_result = calc.calc_result

\* Ok is returned only with every worker returned and joined
OkOnlyComplete ==
    /\ calc.status = "Ok" <=> calc.pc = "done"
    /\ calc.status = "ThreadError" <=> calc.pc = "failed"
    /\ calc.status = "Ok" =>
           /\ calc.panicked = {}
           /\ calc.returned = 1 .. Len(calc.table_val)
           /\ calc.reduced = SpawnOrder(Len(calc.table_val))

\* C22: when the join of a worker fails, calc_probabilities returns
\* Err(ThreadError) at that join and stays so; Ok is returned only when every
\* worker has returned and has been joined, none of them lost.
C22_ThreadError == [][FailedJoin]_vars /\ []OkOnlyComplete

\* the third worker is lost after the first two were joined and reduced
C22_Witness ==
    /\ calc.pc = "failed" /\ calc.status = "ThreadError"
    /\ calc.panicked = {3} /\ calc.reduced = <<1, 2>>
    /\ calc.calc_result # calc.table_val

====
